---- MODULE Spec2Model ----
(***************************************************************************)
(* Model of the live-chat scrapers: angel_live_scraper.py,                 *)
(* chatpia_scraper.py, madam_live_scraper.py and jewel_live_scraper.py.    *)
(*                                                                         *)
(* A Python str is a sequence of one-character strings.  The kana and      *)
(* kanji of the sources are written with one romanised name per character  *)
(* ("nen" for U+5E74, "rei" for U+9F62, ...), so a keyword such as the      *)
(* two-character word for "age" is <<"nen", "rei">> and substring tests     *)
(* work character by character as `key in label` does.                     *)
(*                                                                         *)
(* A parsed page (BeautifulSoup) is a sequence of element nodes in         *)
(* document order; each node has its tag name, one class, the index of its *)
(* parent (0 for a top-level element) and its own stripped text, which     *)
(* precedes its children.                                                  *)
(***************************************************************************)
EXTENDS Naturals, Sequences, FiniteSets, TLC

(***************************************************************************)
(* Strings                                                                 *)
(***************************************************************************)
Empty == <<>>

Dash == <<"-">>

Digits == {"0", "1", "2", "3", "4", "5", "6", "7", "8", "9"}

\* str.startswith(prefix)
StartsWith(s, prefix) ==
    /\ Len(s) >= Len(prefix)
    /\ SubSeq(s, 1, Len(prefix)) = prefix

\* `key in text`
Contains(text, key) ==
    \E i \in 1..(Len(text) + 1) :
        /\ i + Len(key) - 1 <= Len(text)
        /\ SubSeq(text, i, i + Len(key) - 1) = key

\* any(key in text for key in keywords)
AnyKeyIn(text, keywords) ==
    \E q \in 1..Len(keywords) : Contains(text, keywords[q])

\* first_non_empty(a, b, c)
first_non_empty(a, b, c) ==
    IF a # Empty THEN a
    ELSE LET second == b
         IN  IF second # Empty THEN second
             ELSE LET third == c IN IF third # Empty THEN third ELSE Empty

\* Both values joined instead of the first non-empty one.
Concatenated(a, b) == a \o b

\* first_non_empty(a, b)
first_non_empty2(a, b) ==
    IF a # Empty THEN a ELSE IF b # Empty THEN b ELSE Empty

\* re.search(r"(\d+)", value): the first maximal run of digits, or "".
RECURSIVE DigitRun(_, _)
DigitRun(value, i) ==
    IF i > Len(value) \/ value[i] \notin Digits
    THEN Empty
    ELSE <<value[i]>> \o DigitRun(value, i + 1)

RECURSIVE FirstDigitAt(_, _)
FirstDigitAt(value, i) ==
    IF i > Len(value) THEN 0
    ELSE IF value[i] \in Digits THEN i
    ELSE FirstDigitAt(value, i + 1)

\* The digits the value starts with, not the first run anywhere in it.
LeadingDigits(value) == DigitRun(value, 1)

extract_age_digits(value) ==
    IF value = Empty THEN Empty
    ELSE LET i == FirstDigitAt(value, 1)
         IN  IF i = 0 THEN Empty ELSE DigitRun(value, i)

\* ", ".join(parts) and " ".join(parts): parts is a sequence of strings.
RECURSIVE Join(_, _)
Join(parts, sep) ==
    IF parts = <<>> THEN Empty
    ELSE IF Len(parts) = 1 THEN parts[1]
    ELSE parts[1] \o sep \o Join(Tail(parts), sep)

\* [p for p in parts if p]
RECURSIVE NonEmpty(_)
NonEmpty(parts) ==
    IF parts = <<>> THEN <<>>
    ELSE IF parts[1] = Empty THEN NonEmpty(Tail(parts))
    ELSE <<parts[1]>> \o NonEmpty(Tail(parts))

(***************************************************************************)
(* Parsed documents                                                        *)
(***************************************************************************)
Node(tag, cls, parent, text) ==
    [tag |-> tag, cls |-> cls, parent |-> parent, text |-> text]

\* j is a proper descendant of i (i = 0 is the document itself).
RECURSIVE IsInside(_, _, _)
IsInside(doc, j, i) ==
    IF i = 0 THEN TRUE
    ELSE IF j = 0 THEN FALSE
    ELSE IF doc[j].parent = i THEN TRUE
    ELSE IsInside(doc, doc[j].parent, i)

\* The smallest index of a set of nodes (the first in document order), 0 if none.
First(S) == IF S = {} THEN 0 ELSE CHOOSE i \in S : \A j \in S : i <= j

\* A set of node indices as the list in document order.
RECURSIVE InOrder(_)
InOrder(S) ==
    IF S = {} THEN <<>>
    ELSE LET i == First(S) IN <<i>> \o InOrder(S \ {i})

\* The stripped, non-empty strings of node i and its descendants, in order.
RECURSIVE Strings(_, _, _)
Strings(doc, i, j) ==
    IF j > Len(doc) THEN <<>>
    ELSE IF (j = i \/ IsInside(doc, j, i)) /\ doc[j].text # Empty
         THEN <<doc[j].text>> \o Strings(doc, i, j + 1)
         ELSE Strings(doc, i, j + 1)

\* tag.get_text(sep, strip=True)
get_text(doc, i, sep) == Join(Strings(doc, i, i), sep)

\* text_content(tag): "" for a missing tag (index 0).
text_content(doc, i) == IF i = 0 THEN Empty ELSE get_text(doc, i, <<" ">>)

\* A simple CSS selector: a tag name ("" for any) and the classes it requires.
Sel(tag, cls) == [tag |-> tag, cls |-> cls]

SelMatches(node, sel) ==
    /\ sel.tag = "" \/ node.tag = sel.tag
    /\ sel.cls \subseteq node.cls

\* scope.select(group): the descendants of scope matching any selector of the
\* comma-separated group, in document order (as a set of indices).
Select(doc, scope, group) ==
    {j \in 1..Len(doc) :
        /\ IsInside(doc, j, scope)
        /\ \E s \in group : SelMatches(doc[j], s)}

\* scope.select_one(group)
select_one(doc, scope, group) == First(Select(doc, scope, group))

\* tag.find(name): the first descendant with that tag name.
find(doc, scope, name) == select_one(doc, scope, {Sel(name, {})})

\* tag.find_next_sibling(name)
find_next_sibling(doc, i, name) ==
    First({j \in (i + 1)..Len(doc) :
              doc[j].parent = doc[i].parent /\ doc[j].tag = name})

ValueTags == {"dd", "td", "span", "div", "p", "li"}

\* label.find_next(lambda tag: tag is not label and tag.name in {...})
find_next_value(doc, i) ==
    First({j \in (i + 1)..Len(doc) : doc[j].tag \in ValueTags})

\* soup.find(matches): the first element, from element i on, whose text
\* (its own and its descendants') holds one of the keywords; 0 if none.
RECURSIVE FindLabel(_, _, _)
FindLabel(doc, keywords, i) ==
    IF i > Len(doc) THEN 0
    ELSE IF AnyKeyIn(get_text(doc, i, Empty), keywords) THEN i
    ELSE FindLabel(doc, keywords, i + 1)

find_labeled_value(doc, keywords) ==
    LET label == FindLabel(doc, keywords, 1)
        dd == find_next_sibling(doc, label, "dd")
        td == find_next_sibling(doc, label, "td")
    IN  IF label = 0 THEN Empty
        ELSE IF doc[label].tag = "dt" /\ dd # 0 THEN text_content(doc, dd)
        ELSE IF doc[label].tag = "th" /\ td # 0 THEN text_content(doc, td)
        ELSE text_content(doc, find_next_value(doc, label))

(***************************************************************************)
(* Label dictionaries (label_map) and selector lists of the four           *)
(* parse_detail_page variants.  Character names: kanji in plain romaji,    *)
(* hiragana with the prefix h_, katakana with the prefix k_.               *)
(***************************************************************************)
Sites == {"angel", "chatpia", "madam", "jewel"}

DetailKeys ==
    <<"age", "height", "cup", "face_public", "toy", "time_slot", "style",
      "job", "hobby", "favorite_type", "erogenous_zone", "genre_detail">>

DetailKeySet == {DetailKeys[q] : q \in 1..Len(DetailKeys)}

KwAge == << <<"nen", "rei">>, <<"sai">>, <<"zai">> >>

KwHeight == << <<"shin", "chou">>, <<"c", "m">> >>

KwCup == << <<"k_ka", "k_xtu", "k_pu">>, <<"k_ba", "k_su", "k_to">> >>

KwFace == << <<"kao", "de", "h_shi">>, <<"kao">>, <<"kou", "kai">> >>

KwToy == << <<"h_o", "h_mo", "h_chi", "h_xya">>, <<"gan", "gu">> >>

KwToyJewel == << <<"h_o", "h_mo", "h_chi", "h_xya">> >>

KwTime == << <<"de", "botsu", "ji", "kan">>, <<"ji", "kan">> >>

KwStyle == << <<"k_su", "k_ta", "k_i", "k_ru">> >>

KwJob == << <<"shoku", "gyou">> >>

KwHobby == << <<"shu", "mi">> >>

KwFavorite ==
    << <<"kono", "h_mi", "h_no", "k_ta", "k_i", "k_pu">>,
       <<"kono", "h_ki", "h_na", "k_ta", "k_i", "k_pu">> >>

KwZone == << <<"sei", "kanjiru", "tai">> >>

KwGenreMadam == << <<"k_ji", "k_xya", "k_n", "k_ru">>, <<"k_ta", "k_i", "k_pu">> >>

Entry(field, keywords) == [field |-> field, keywords |-> keywords]

\* The eleven entries the three label_map dicts share, in dict order.
LabelMapCommon(toy) ==
    << Entry("age", KwAge), Entry("height", KwHeight), Entry("cup", KwCup),
       Entry("face_public", KwFace), Entry("toy", toy),
       Entry("time_slot", KwTime), Entry("style", KwStyle),
       Entry("job", KwJob), Entry("hobby", KwHobby),
       Entry("favorite_type", KwFavorite),
       Entry("erogenous_zone", KwZone) >>

LabelMapAngel == LabelMapCommon(KwToy)

LabelMapMadam == LabelMapCommon(KwToy) \o <<Entry("genre_detail", KwGenreMadam)>>

LabelMapJewel == LabelMapCommon(KwToyJewel)

\* label_map, in dict (insertion) order.
label_map(variant) ==
    IF variant = "madam" THEN LabelMapMadam
    ELSE IF variant = "jewel" THEN LabelMapJewel
    ELSE LabelMapAngel

\* The selector of the profile region.
ContainerGroup(variant) ==
    IF variant = "jewel" THEN {Sel("div", {"profile-box"})}
    ELSE {Sel("", {"profile"}), Sel("", {"cast-profile"}), Sel("", {"profile-box"})}

\* The definition lists read inside the profile region.
DlGroup(variant) ==
    IF variant = "jewel" THEN {Sel("dl", {"profile-dl"})} ELSE {Sel("dl", {})}

\* selectors[key], in list order.
selectors(variant, key) ==
    LET cls == IF key = "face_public" THEN "face" ELSE key
        pcls == CASE key = "age" -> "p-age"
                  [] key = "height" -> "p-height"
                  [] key = "cup" -> "p-cup"
                  [] OTHER -> "p-face"
        head == IF variant = "jewel" THEN Sel("dd", {pcls}) ELSE Sel("", {cls})
    IN  <<head, Sel("span", {cls}), Sel("li", {cls}), Sel("td", {cls})>>

\* The fields for which the selector list is consulted.
SelectorKeys == {"age", "height", "cup", "face_public"}

\* The fields parse_detail_page passes through first_non_empty.
FallbackKeys(variant) ==
    IF variant = "angel" THEN {"age", "height"}
    ELSE IF variant \in {"madam", "jewel"} THEN {"age", "height", "cup", "face_public"}
    ELSE {}

(***************************************************************************)
(* parse_detail_page: angel, madam and jewel                               *)
(***************************************************************************)
EmptyFields == [q \in DetailKeySet |-> Empty]

\* The label/value pair read from one dl or one table row: the text of its
\* first dt (th) and of its first dd (td).
PairOf(doc, i, labelTag, valueTag) ==
    <<text_content(doc, find(doc, i, labelTag)),
      text_content(doc, find(doc, i, valueTag))>>

\* for dl in profile_container.select("dl"): (label, value)
DlPairs(variant, doc, container) ==
    LET dls == InOrder(Select(doc, container, DlGroup(variant)))
    IN  [q \in 1..Len(dls) |-> PairOf(doc, dls[q], "dt", "dd")]

\* for table in profile_container.select("table"): for row in table.select("tr")
RECURSIVE RowPairs(_, _)
RowPairs(doc, tables) ==
    IF tables = <<>> THEN <<>>
    ELSE LET rows == InOrder(Select(doc, tables[1], {Sel("tr", {})}))
         IN  [q \in 1..Len(rows) |-> PairOf(doc, rows[q], "th", "td")]
                 \o RowPairs(doc, Tail(tables))

TablePairs(variant, doc, container) ==
    IF variant = "jewel" THEN <<>>
    ELSE RowPairs(doc, InOrder(Select(doc, container, {Sel("table", {})})))

\* The indices of the label_map entries one of whose keywords is in label.
Matching(variant, label) ==
    LET lm == label_map(variant)
    IN  {q \in 1..Len(lm) : AnyKeyIn(label, lm[q].keywords)}

\* The inner loop written as `if value: fields[field] = value`: a pair with an
\* empty value leaves the fields as they are.
SetMatchingUnlessEmpty(variant, fields, label, value) ==
    LET lm == label_map(variant)
        hit == Matching(variant, label)
        first == First(hit)
    IN  IF value = Empty THEN fields
        ELSE IF variant = "angel"
        THEN [f \in DOMAIN fields |->
                IF \E q \in hit : lm[q].field = f THEN value ELSE fields[f]]
        ELSE IF first = 0 THEN fields
        ELSE [fields EXCEPT ![lm[first].field] = value]

\* The inner loop `for field, keywords in label_map.items()`: angel sets every
\* matching field, madam and jewel break after the first.
SetMatching(variant, fields, label, value) ==
    LET lm == label_map(variant)
        hit == Matching(variant, label)
        first == First(hit)
    IN  IF variant = "angel"
        THEN [f \in DOMAIN fields |->
                IF \E q \in hit : lm[q].field = f THEN value ELSE fields[f]]
        ELSE IF first = 0 THEN fields
        ELSE [fields EXCEPT ![lm[first].field] = value]

\* One pass over a list of pairs; a pair with an empty label is skipped.
RECURSIVE ApplyPairs(_, _, _)
ApplyPairs(variant, fields, pairs) ==
    IF pairs = <<>> THEN fields
    ELSE LET label == pairs[1][1]
             value == pairs[1][2]
             next == IF label = Empty THEN fields
                     ELSE SetMatching(variant, fields, label, value)
         IN  ApplyPairs(variant, next, Tail(pairs))

\* The texts of a list of nodes.
Texts(doc, nodes) == [q \in 1..Len(nodes) |-> text_content(doc, nodes[q])]

\* The genre_detail value after the tag/badge step.
GenreStep(variant, doc, container, fields) ==
    IF variant = "jewel"
    THEN LET genre_dd == select_one(doc, container, {Sel("dd", {"genre-list"})})
             active == Texts(doc, InOrder(Select(doc, genre_dd,
                                  {Sel("div", {"genre-div", "active"})})))
             all == Texts(doc, InOrder(Select(doc, genre_dd,
                                  {Sel("div", {"genre-div"})})))
             active_genres == IF active = <<>> THEN all ELSE active
         IN  IF genre_dd = 0 THEN fields
             ELSE [fields EXCEPT !["genre_detail"] =
                       Join(NonEmpty(active_genres), <<",", " ">>)]
    ELSE LET genre_tags == NonEmpty(Texts(doc, InOrder(Select(doc, container,
                 {Sel("", {"tag"}), Sel("", {"genre"}), Sel("", {"badge"})}))))
         IN  IF genre_tags = <<>> THEN fields
             ELSE [fields EXCEPT !["genre_detail"] = Join(genre_tags, <<",", " ">>)]

\* The fields after the `if profile_container:` block.
StructuredPass(variant, doc) ==
    LET container == select_one(doc, 0, ContainerGroup(variant))
        afterDl == ApplyPairs(variant, EmptyFields, DlPairs(variant, doc, container))
        afterTable == ApplyPairs(variant, afterDl, TablePairs(variant, doc, container))
    IN  IF container = 0 THEN EmptyFields
        ELSE GenreStep(variant, doc, container, afterTable)

\* pick_from_selector(key) / pick_from_selectors(key)
RECURSIVE PickFrom(_, _)
PickFrom(doc, sels) ==
    IF sels = <<>> THEN Empty
    ELSE LET tag == select_one(doc, 0, {sels[1]})
             text == text_content(doc, tag)
         IN  IF tag # 0 /\ text # Empty THEN text ELSE PickFrom(doc, Tail(sels))

\* The selector list tried from its last, most specific, entry backwards.
PickMostSpecific(variant, doc, key) ==
    PickFrom(doc, [n \in 1..Len(selectors(variant, key)) |->
                      selectors(variant, key)[Len(selectors(variant, key)) + 1 - n]])

pick_from_selector(variant, doc, key) == PickFrom(doc, selectors(variant, key))

\* label_map[key]
KeywordsOf(variant, key) ==
    LET q == CHOOSE q \in 1..Len(label_map(variant)) : label_map(variant)[q].field = key
    IN  label_map(variant)[q].keywords

\* The assignments after the structured pass.
Fallback(variant, doc, fields, key) ==
    LET v == first_non_empty(fields[key], pick_from_selector(variant, doc, key),
                             find_labeled_value(doc, KeywordsOf(variant, key)))
    IN  IF key \notin FallbackKeys(variant) THEN fields[key]
        ELSE IF variant = "angel" /\ key = "age" THEN extract_age_digits(v)
        ELSE v

\* (fields is bound by a quantifier so that the pass is evaluated once.)
ParseProfile(variant, doc) ==
    CHOOSE result \in {[key \in DetailKeySet |-> Fallback(variant, doc, fields, key)] :
                           fields \in {StructuredPass(variant, doc)}} : TRUE

(***************************************************************************)
(* parse_detail_page: chatpia                                              *)
(***************************************************************************)
KwThreeSize == <<"k_su", "k_ri", "k_choon", "k_sa", "k_i", "k_zu">>

KwMaleType == <<"otoko", "sei", "h_no", "k_ta", "k_i", "k_pu">>

UpperLetters ==
    {"A", "B", "C", "D", "E", "F", "G", "H", "I", "J", "K", "L", "M",
     "N", "O", "P", "Q", "R", "S", "T", "U", "V", "W", "X", "Y", "Z"}

\* re.search(r"([A-Z...])cup", val): the letter followed by the word "cup"
\* (KwCup[1]) when there is one, else the whole text.
CupOf(val) ==
    LET hits == {i \in 1..Len(val) :
                    /\ val[i] \in UpperLetters
                    /\ i + 3 <= Len(val)
                    /\ SubSeq(val, i + 1, i + 3) = KwCup[1]}
    IN  IF hits = {} THEN val ELSE <<val[First(hits)]>> \o KwCup[1]

\* One step of the if/elif chain over (label, val).
ChatpiaSet(fields, label, val) ==
    IF Contains(label, KwHeight[1]) THEN [fields EXCEPT !["height"] = val]
    ELSE IF Contains(label, KwThreeSize) THEN [fields EXCEPT !["cup"] = CupOf(val)]
    ELSE IF Contains(label, KwJob[1]) THEN [fields EXCEPT !["job"] = val]
    ELSE IF Contains(label, KwHobby[1]) THEN [fields EXCEPT !["hobby"] = val]
    ELSE IF Contains(label, KwMaleType) THEN [fields EXCEPT !["favorite_type"] = val]
    ELSE IF Contains(label, KwTime[1]) THEN [fields EXCEPT !["time_slot"] = val]
    ELSE fields

\* for dt, dd in zip(dts, dds)
RECURSIVE ChatpiaZip(_, _, _, _)
ChatpiaZip(doc, fields, dts, dds) ==
    IF dts = <<>> \/ dds = <<>> THEN fields
    ELSE ChatpiaZip(doc,
                    ChatpiaSet(fields, text_content(doc, dts[1]),
                               text_content(doc, dds[1])),
                    Tail(dts), Tail(dds))

GenreChatpia == <<"C", "h", "a", "t", "p", "i", "a">>

ParseChatpia(doc) ==
    LET section == select_one(doc, 0, {Sel("section", {"life-status"})})
        dts == InOrder(Select(doc, section, {Sel("dt", {"life-status-detail__title"})}))
        dds == InOrder(Select(doc, section, {Sel("dd", {"life-status-detail__data"})}))
    IN  IF section = 0 THEN EmptyFields
        ELSE [ChatpiaZip(doc, EmptyFields, dts, dds)
                 EXCEPT !["genre_detail"] = GenreChatpia]

\* parse_detail_page(detail_url) on the document fetched for detail_url.
parse_detail_page(variant, doc) ==
    IF variant = "chatpia" THEN ParseChatpia(doc) ELSE ParseProfile(variant, doc)

(***************************************************************************)
(* Detail pages: the documents the model draws from.  A page is described  *)
(* by its parts and built into a node sequence in document order.          *)
(***************************************************************************)
MaxPairs == 2

\* All sequences over S of length at most n.
SeqUpTo(S, n) == UNION {[1..k -> S] : k \in 0..n}

\* Texts used in pages.
T25sai == <<"2", "5", "sai">>

T30sai == <<"3", "0", "sai">>

T160cm == <<"1", "6", "0", "c", "m">>

T170cm == <<"1", "7", "0", "c", "m">>

TOL == <<"O", "L">>

TYoru == <<"yoru">>

TDokusho == <<"doku", "sho">>

TShinjin == <<"shin", "jin">>

THitozuma == <<"hito", "zuma">>

\* The label "face-showing hours" holds keywords of face_public and time_slot.
LFaceTime == <<"kao", "de", "h_shi", "ji", "kan">>

\* dt/dd pairs a definition list may hold: <<label, value>>.
PairDomain ==
    { <<KwAge[1], T25sai>>, <<KwAge[1], Empty>>, <<KwHeight[1], T160cm>>,
      <<KwJob[1], TOL>>, <<LFaceTime, TYoru>>, <<KwGenreMadam[1], THitozuma>> }

\* th/td rows the table of the profile region may hold.
RowOptions == { <<>>, << <<KwAge[1], T30sai>> >> }

\* Tag/badge elements of the profile region.
TagOptions == { <<>>, <<TShinjin, THitozuma>>, <<Empty>> }

\* Elements after the profile region: nothing, an element a selector of the
\* fallback lists matches, or a label element followed by a span.
ExtraOptions ==
    { <<>>,
      <<Node("span", {"age"}, 0, T30sai)>>,
      <<Node("li", {"cup"}, 0, <<"F">>)>>,
      <<Node("b", {}, 0, KwHobby[1]), Node("span", {}, 0, TDokusho)>>,
      <<Node("b", {}, 0, KwHeight[1]), Node("span", {}, 0, T170cm)>> }

\* A block of nodes placed after `base` nodes under `parent`: the block's own
\* parent indices are relative to the block, 0 meaning the block's parent.
Shift(block, base, parent) ==
    [q \in 1..Len(block) |->
        [block[q] EXCEPT !.parent = IF @ = 0 THEN parent ELSE @ + base]]

Place(doc, block, parent) == doc \o Shift(block, Len(doc), parent)

\* The definition lists: pair q opens a new dl when breaks[q].
RECURSIVE DlNodes(_, _, _, _, _, _, _)
DlNodes(doc, pairs, breaks, q, container, dl, cls) ==
    IF q > Len(pairs) THEN doc
    ELSE LET opened == IF breaks[q]
                       THEN Place(doc, <<Node("dl", cls.dl, 0, Empty)>>, container)
                       ELSE doc
             cur == IF breaks[q] THEN Len(opened) ELSE dl
             withPair == Place(opened,
                                <<Node("dt", cls.dt, 0, pairs[q][1]),
                                  Node("dd", cls.dd, 0, pairs[q][2])>>, cur)
         IN  DlNodes(withPair, pairs, breaks, q + 1, container, cur, cls)

\* One table with one tr per row.
RECURSIVE RowNodes(_, _, _, _)
RowNodes(doc, rows, q, table) ==
    IF q > Len(rows) THEN doc
    ELSE LET withTr == Place(doc, <<Node("tr", {}, 0, Empty)>>, table)
             tr == Len(withTr)
         IN  RowNodes(Place(withTr,
                             <<Node("th", {}, 0, rows[q][1]),
                               Node("td", {}, 0, rows[q][2])>>, tr),
                      rows, q + 1, table)

TableNodes(doc, rows, container) ==
    IF rows = <<>> THEN doc
    ELSE LET withTable == Place(doc, <<Node("table", {}, 0, Empty)>>, container)
         IN  RowNodes(withTable, rows, 1, Len(withTable))

\* The tag elements: div.tag.genre-div children of one dd.genre-list.
RECURSIVE TagItems(_, _, _, _)
TagItems(doc, tags, q, list) ==
    IF q > Len(tags) THEN doc
    ELSE TagItems(Place(doc, <<Node("div", {"tag", "genre-div"}, 0, tags[q])>>, list),
                  tags, q + 1, list)

TagNodes(doc, tags, container) ==
    IF tags = <<>> THEN doc
    ELSE LET withList == Place(doc, <<Node("dd", {"genre-list"}, 0, Empty)>>, container)
         IN  TagItems(withList, tags, 1, Len(withList))

ProfileClasses == [dl |-> {"profile-dl"}, dt |-> {}, dd |-> {}]

\* A profile page: optionally wrapped in <html>, optionally with a
\* div.profile-box holding the definition lists, the table and the tags,
\* followed by the extra elements.  A chatpia page ("life") has a
\* section.life-status holding the classed dt/dd pairs instead.
ChatpiaClasses ==
    [dl |-> {}, dt |-> {"life-status-detail__title"},
     dd |-> {"life-status-detail__data"}]

BuildDoc(p) ==
    LET top == IF p.wrap THEN <<Node("html", {}, 0, Empty)>> ELSE <<>>
        root == Len(top)
        head == IF p.kind = "life"
                THEN Node("section", {"life-status"}, 0, Empty)
                ELSE Node("div", {"profile-box"}, 0, Empty)
        withBox == Place(top, <<head>>, root)
        box == Len(withBox)
        withDls == DlNodes(withBox, p.pairs, p.breaks, 1, box, 0,
                           IF p.kind = "life" THEN ChatpiaClasses ELSE ProfileClasses)
        withTable == TableNodes(withDls, p.rows, box)
        withTags == TagNodes(withTable, p.tags, box)
        body == IF p.box THEN withTags ELSE top
    IN  Place(body, p.extra, root)

\* Where the dls of a list of pairs may start: the first pair opens one.
BreaksOf(pairs) ==
    {b \in [1..Len(pairs) -> BOOLEAN] : Len(pairs) >= 1 => b[1]}

Page(kind, wrap, box, pairs, breaks, rows, tags, extra) ==
    [kind |-> kind, wrap |-> wrap, box |-> box, pairs |-> pairs, breaks |-> breaks,
     rows |-> rows, tags |-> tags, extra |-> extra]

\* The pages of angel, madam and jewel.
ProfilePages ==
    UNION { { Page("profile", w, TRUE, ps, b, r, t, e) :
                w \in BOOLEAN, b \in BreaksOf(ps), r \in RowOptions,
                t \in TagOptions, e \in ExtraOptions }
            : ps \in SeqUpTo(PairDomain, MaxPairs) }
    \cup { Page("profile", w, FALSE, <<>>, <<>>, <<>>, <<>>, e) :
             w \in BOOLEAN, e \in ExtraOptions }

TCupLine == <<"B", "(", "D", "k_ka", "k_xtu", "k_pu", ")">>

ChatpiaPairDomain ==
    { <<KwHeight[1], T160cm>>, <<KwThreeSize, TCupLine>>, <<KwThreeSize, <<"8", "8">> >>,
      <<KwMaleType, Empty>>, <<KwAge[1], T25sai>> }

\* The pages of chatpia.
ChatpiaPages ==
    UNION { { Page("life", w, TRUE, ps, b, <<>>, <<>>, e) :
                w \in BOOLEAN, b \in BreaksOf(ps), e \in ExtraOptions }
            : ps \in SeqUpTo(ChatpiaPairDomain, MaxPairs) }
    \cup { Page("life", w, FALSE, <<>>, <<>>, <<>>, <<>>, e) :
             w \in BOOLEAN, e \in ExtraOptions }

PagesOf(variant) == IF variant = "chatpia" THEN ChatpiaPages ELSE ProfilePages

(***************************************************************************)
(* Listing cards and extract_card_info.  A URL is a sequence whose first   *)
(* element is its scheme; a relative href has no scheme element.           *)
(***************************************************************************)
Http == <<"http">>

Schemes == {"http", "javascript"}

\* base_url (the default listing URL of each script).
base_url == <<"http", "s://site/">>

\* urljoin(base_url, href)
urljoin(base, href) ==
    IF href = Empty THEN base
    ELSE IF href[1] \in Schemes THEN href
    ELSE base \o href

\* str.strip()
RECURSIVE Strip(_)
Strip(str) ==
    IF str = Empty THEN Empty
    ELSE IF str[1] = " " THEN Strip(Tail(str))
    ELSE IF str[Len(str)] = " " THEN Strip(SubSeq(str, 1, Len(str) - 1))
    ELSE str

\* Characters outside the class [\w\s...] of sanitize_profile_name.
Symbols == {"(", ")", "*"}

\* re.sub(r"[^\w\s...]+", "", name).strip()
sanitize_profile_name(name) ==
    IF name = Empty THEN Empty
    ELSE Strip(SelectSeq(name, LAMBDA c : c \notin Symbols))

\* angel: re.match(r"^(.*?)[(]\s*(\d+)[^)]*[)]", raw_name): the index of the
\* first "(" that is followed by optional spaces, a digit run and, later,
\* a ")"; 0 when there is no match.
RECURSIVE SkipSpaces(_, _)
SkipSpaces(str, i) ==
    IF i <= Len(str) /\ str[i] = " " THEN SkipSpaces(str, i + 1) ELSE i

NameAgeMatch(raw) ==
    First({i \in 1..Len(raw) :
              /\ raw[i] = "("
              /\ LET d == SkipSpaces(raw, i + 1)
                 IN  /\ d <= Len(raw)
                     /\ raw[d] \in Digits
                     /\ \E c \in (d + 1)..Len(raw) : raw[c] = ")"})

\* chatpia: re.sub(r"\(.*?\)", "", raw_name): every "(" up to the next ")" is
\* removed.
RECURSIVE DropParens(_)
DropParens(raw) ==
    IF raw = Empty THEN Empty
    ELSE LET close == First({c \in 2..Len(raw) : raw[c] = ")"})
         IN  IF raw[1] = "(" /\ close # 0
             THEN DropParens(SubSeq(raw, close + 1, Len(raw)))
             ELSE <<raw[1]>> \o DropParens(Tail(raw))

\* A listing card: href is the href of its first link (Empty when the card
\* has no link), name the text of its name element (Empty when it has none),
\* samune and oneword its thumbnail URL and its comment (Empty when missing).
Card(href, name, samune, oneword) ==
    [href |-> href, name |-> name, samune |-> samune, oneword |-> oneword]

Info(name, samune, url, oneword, age_from_name) ==
    [name |-> name, samune |-> samune, url |-> url, oneword |-> oneword,
     age_from_name |-> age_from_name]

OrDash(v) == IF v = Empty THEN Dash ELSE v

extract_card_info_angel(card) ==
    LET detail_url == IF card.href = Empty THEN Empty ELSE urljoin(base_url, card.href)
        raw_name == card.name
        m == NameAgeMatch(raw_name)
        name == IF m # 0 THEN Strip(SubSeq(raw_name, 1, m - 1)) ELSE raw_name
        age_from_name == IF m # 0 THEN DigitRun(raw_name, SkipSpaces(raw_name, m + 1))
                         ELSE Empty
    IN  Info(OrDash(sanitize_profile_name(name)), OrDash(card.samune),
             OrDash(detail_url), OrDash(card.oneword), age_from_name)

\* chatpia: the name element `.name a` is the card's link, so a card without
\* a link has neither a name nor a URL; the text of the .name block is the
\* text of that link.
extract_card_info_chatpia(card) ==
    LET raw_name == IF card.href = Empty THEN Empty ELSE card.name
        name == sanitize_profile_name(Strip(DropParens(raw_name)))
        detail_url == IF card.href = Empty THEN Empty ELSE urljoin(base_url, card.href)
    IN  Info(OrDash(name), card.samune, detail_url, card.oneword,
             extract_age_digits(raw_name))

extract_card_info_madam(card) ==
    LET detail_url == IF card.href = Empty THEN Empty ELSE urljoin(base_url, card.href)
    IN  Info(card.name, card.samune, detail_url, card.oneword, Empty)

\* jewel reads the card inline (scrape_jewel); a card without a link is
\* skipped before this.
extract_card_info_jewel(card) ==
    Info(card.name, card.samune, urljoin(base_url, card.href), card.oneword, Empty)

extract_card_info(variant, card) ==
    CASE variant = "angel" -> extract_card_info_angel(card)
      [] variant = "chatpia" -> extract_card_info_chatpia(card)
      [] variant = "madam" -> extract_card_info_madam(card)
      [] OTHER -> extract_card_info_jewel(card)

(***************************************************************************)
(* Record assembly (the `item = {...}` of each driver)                     *)
(***************************************************************************)
FieldKeys ==
    {"age", "height", "cup", "face_public", "toy", "time_slot", "style",
     "job", "hobby", "favorite_type", "erogenous_zone", "genre"}

ItemKeys == {"name", "samune", "url", "oneword"} \cup FieldKeys

\* The detail_fields of a card whose detail page failed: {}.
NoFields == [q \in {} |-> Empty]

\* detail_fields.get(key, "")
Get(detail_fields, key) ==
    IF key \in DOMAIN detail_fields THEN detail_fields[key] ELSE Empty

GenreAngel == <<"A", "n", "g", "e", "l", " ", "L", "i", "v", "e">>

GenreMadam == <<"M", "a", "d", "a", "m", " ", "L", "i", "v", "e">>

GenreJewel == <<"J", "e", "w", "e", "l", " ", "L", "i", "v", "e">>

DefaultGenre(variant) ==
    CASE variant = "angel" -> GenreAngel
      [] variant = "chatpia" -> GenreChatpia
      [] variant = "madam" -> GenreMadam
      [] OTHER -> GenreJewel

\* value is None or (isinstance(value, str) and not value.strip())
IsBlank(value) == Strip(value) = Empty

\* fill_missing_with_dash(item) / fill_with_dash(item)
fill_missing_with_dash(item) ==
    [key \in DOMAIN item |-> IF IsBlank(item[key]) THEN Dash ELSE item[key]]

\* angel and chatpia: `x or "-"` on every field, digits of the age, then the
\* dash filling.
BuildItemDashed(variant, info, detail_fields) ==
    LET field(key) ==
            CASE key = "name" -> info.name
              [] key = "samune" -> info.samune
              [] key = "url" -> info.url
              [] key = "oneword" -> info.oneword
              [] key = "age" ->
                    OrDash(extract_age_digits(
                        first_non_empty2(Get(detail_fields, "age"),
                                         info.age_from_name)))
              [] key = "genre" ->
                    IF Get(detail_fields, "genre_detail") = Empty
                    THEN DefaultGenre(variant)
                    ELSE Get(detail_fields, "genre_detail")
              [] OTHER -> OrDash(Get(detail_fields, key))
    IN  fill_missing_with_dash([key \in ItemKeys |-> field(key)])

\* madam and jewel: the values as extracted, no filling.
BuildItemRaw(variant, info, detail_fields) ==
    LET field(key) ==
            CASE key = "name" -> info.name
              [] key = "samune" -> info.samune
              [] key = "url" -> info.url
              [] key = "oneword" -> info.oneword
              [] key = "genre" ->
                    first_non_empty2(Get(detail_fields, "genre_detail"),
                                     DefaultGenre(variant))
              [] OTHER -> Get(detail_fields, key)
    IN  [key \in ItemKeys |-> field(key)]

\* An assembly that treats the genre like every other field: the extracted
\* value, or the sentinel.
BuildItemSentinelGenre(variant, info, detail_fields) ==
    [BuildItemDashed(variant, info, detail_fields) EXCEPT
        !["genre"] = OrDash(Get(detail_fields, "genre_detail"))]

BuildItem(variant, info, detail_fields) ==
    IF variant \in {"angel", "chatpia"}
    THEN BuildItemDashed(variant, info, detail_fields)
    ELSE BuildItemRaw(variant, info, detail_fields)

\* A test that makes thumbnail and comment mandatory in every driver.
SkipCardWithoutMedia(variant, card, info, seen_urls) ==
    \/ card.samune = Empty
    \/ card.oneword = Empty
    \/ card.href = Empty
    \/ info.url \in seen_urls

\* The test that drops a card before its detail page is fetched.
SkipCard(variant, card, info, seen_urls) ==
    CASE variant = "angel" ->
            info.url = Empty \/ info.url \in seen_urls \/ info.url = Dash
      [] variant = "chatpia" ->
            \/ info.samune = Empty \/ info.oneword = Empty
            \/ ~StartsWith(info.url, Http)
            \/ info.url \in seen_urls
      [] variant = "madam" -> info.url = Empty \/ info.url \in seen_urls
      [] OTHER -> card.href = Empty

\* Whether the driver keeps a set of seen URLs.
KeepsSeen(variant) == variant # "jewel"

\* The test that skips an item in the emission loop.
SkipItem(variant, item) == variant = "angel" /\ ~StartsWith(item["url"], Http)

\* Whether the emission loop catches a failed submission.
CatchesPostError(variant) == variant \in {"angel", "chatpia"}

(***************************************************************************)
(* The drivers scrape_angel, scrape_chatpia, scrape_madam, scrape_jewel    *)
(***************************************************************************)
MaxCards == 2

\* hrefs of a card's link: none, two relative paths, a javascript: link.
Hrefs == {Empty, <<"p1">>, <<"p2">>, <<"javascript", ":void(0)">>}

TThumb == <<"http", "s://cdn/x.jpg">>

TWord == <<"h", "i">>

NamedCard == <<"A", "(", "5", "3", ")">>

\* Name, thumbnail and comment of a card: all present, or one kind missing.
Shapes ==
    {<<NamedCard, TThumb, TWord>>, <<NamedCard, Empty, Empty>>,
     <<Empty, TThumb, TWord>>, <<<<"*">>, TThumb, TWord>>}

CardDomain == {Card(h, sh[1], sh[2], sh[3]) : h \in Hrefs, sh \in Shapes}

\* The detail pages a run may be served.
PageBlank(kind) == Page(kind, TRUE, FALSE, <<>>, <<>>, <<>>, <<>>, <<>>)

PageData(kind, pairs) ==
    Page(kind, TRUE, TRUE, pairs, <<TRUE, TRUE>>, <<>>,
         IF kind = "life" THEN <<>> ELSE <<TShinjin, THitozuma>>, <<>>)

RunPages(variant) ==
    IF variant = "chatpia"
    THEN <<PageBlank("life"),
           PageData("life", << <<KwHeight[1], T160cm>>, <<KwThreeSize, TCupLine>> >>)>>
    ELSE <<PageBlank("profile"),
           PageData("profile", << <<KwAge[1], T25sai>>, <<KwHeight[1], T160cm>> >>)>>

\* The outcome of fetching a detail page: a page, named by its position in
\* RunPages, or a failure (fetch_html raises; no page).
Outcome(ok, page) == [ok |-> ok, page |-> page]

Outcomes(s) ==
    {Outcome(FALSE, 0)} \cup {Outcome(TRUE, p) : p \in DOMAIN RunPages(s)}

\* parse_detail_page on each page a run may be served.
ParsedPage ==
    [s \in Sites |->
        [p \in DOMAIN RunPages(s) |-> parse_detail_page(s, BuildDoc(RunPages(s)[p]))]]

\* Whether the `try: parse_detail_page(...) except Exception` catches.
DetailErrorEscapes(s) == s \notin {"madam"}

CatchesDetailError(s) == s \in Sites

VARIABLES site, cards, pc, idx, seen, items, calls, k, sink, success_count, reported

run_vars == <<site, cards, pc, idx, seen, items, calls, k, sink, success_count,
              reported>>

VARIABLES p_site, p_page, p_pc, p_fields

parse_vars == <<p_site, p_page, p_pc, p_fields>>

VARIABLES f_pc, f_value, f_digits, f_site, f_info, f_detail, f_item, f_again

fn_vars == <<f_pc, f_value, f_digits, f_site, f_info, f_detail, f_item, f_again>>

VARIABLES s_script, s_pc, s_sheet, s_before, s_base, s_entries, s_existing, s_i

sheet_vars == <<s_script, s_pc, s_sheet, s_before, s_base, s_entries, s_existing, s_i>>

VARIABLES d_site, d_key, d_doc, d_pc, d_text

fallback_vars == <<d_site, d_key, d_doc, d_pc, d_text>>

VARIABLES l_site, l_doc, l_pc, l_cards

listing_vars == <<l_site, l_doc, l_pc, l_cards>>

vars == <<run_vars, parse_vars, fn_vars, sheet_vars, fallback_vars, listing_vars>>

\* The variables a specification leaves alone.
not_run_vars == <<parse_vars, fn_vars, sheet_vars, fallback_vars, listing_vars>>

not_parse_vars == <<run_vars, fn_vars, sheet_vars, fallback_vars, listing_vars>>

not_fn_vars == <<run_vars, parse_vars, sheet_vars, fallback_vars, listing_vars>>

not_sheet_vars == <<run_vars, parse_vars, fn_vars, fallback_vars, listing_vars>>

not_fallback_vars == <<run_vars, parse_vars, fn_vars, sheet_vars, listing_vars>>

not_listing_vars == <<run_vars, parse_vars, fn_vars, sheet_vars, fallback_vars>>

\* The variables of the other specification, held fixed.
ParseIdle ==
    /\ p_site = "angel"
    /\ p_page = PageBlank("profile")
    /\ p_pc = "idle"
    /\ p_fields = EmptyFields

FnIdle ==
    /\ f_pc = "idle"
    /\ f_value = Empty
    /\ f_digits = Empty
    /\ f_site = "angel"
    /\ f_info = Info(Empty, Empty, Empty, Empty, Empty)
    /\ f_detail = NoFields
    /\ f_item = NoFields
    /\ f_again = NoFields

SheetIdle ==
    /\ s_script = "update_sheet"
    /\ s_pc = "idle"
    /\ s_sheet = <<>>
    /\ s_before = <<>>
    /\ s_base = 0
    /\ s_entries = <<>>
    /\ s_existing = {}
    /\ s_i = 1

FallbackIdle ==
    /\ d_site = "angel"
    /\ d_key = "age"
    /\ d_doc = <<>>
    /\ d_pc = "idle"
    /\ d_text = Empty

ListingIdle ==
    /\ l_site = "angel"
    /\ l_doc = <<>>
    /\ l_pc = "idle"
    /\ l_cards = <<>>

RunIdle ==
    /\ site = "angel"
    /\ cards = <<>>
    /\ pc = "idle"
    /\ idx = 1
    /\ seen = {}
    /\ items = <<>>
    /\ calls = <<>>
    /\ k = 1
    /\ sink = <<>>
    /\ success_count = 0
    /\ reported = <<>>

(***************************************************************************)
(* Spec: one run of one driver over one listing.                           *)
(***************************************************************************)
Init ==
    /\ site \in Sites
    /\ cards \in SeqUpTo(CardDomain, MaxCards)
    /\ pc = "start"
    /\ idx = 1
    /\ seen = {}
    /\ items = <<>>
    /\ calls = <<>>
    /\ k = 1
    /\ sink = <<>>
    /\ success_count = 0
    /\ reported = <<>>
    /\ ParseIdle
    /\ FnIdle
    /\ SheetIdle
    /\ FallbackIdle
    /\ ListingIdle

\* A loop that hands over to the emission after every card.
EmitAfterEachCard(i) == "emit"

\* Where the card loop goes after card i.
AfterCard(i) == IF i >= Len(cards) THEN "emit" ELSE "collect"

\* html = fetch_html(base_url): raises when the listing cannot be fetched.
FetchListing ==
    /\ pc = "start"
    /\ \E ok \in BOOLEAN :
          pc' = IF ok THEN AfterCard(0) ELSE "failed"
    /\ UNCHANGED <<site, cards, idx, seen, items, calls, k, sink, success_count,
                   reported>>
    /\ UNCHANGED not_run_vars

\* A loop iteration that ends in `continue`.
DropCard ==
    /\ pc = "collect"
    /\ \E info \in {extract_card_info(site, cards[idx])} :
          SkipCard(site, cards[idx], info, seen)
    /\ idx' = idx + 1
    /\ pc' = AfterCard(idx)
    /\ UNCHANGED <<site, cards, seen, items, calls, k, sink, success_count, reported>>
    /\ UNCHANGED not_run_vars

\* A loop iteration whose `except` branch does not reset detail_fields: after
\* a failed extraction the fields of the previous card are used again.
ProcessCardKeepingFields ==
    /\ pc = "collect"
    /\ \E info \in {extract_card_info(site, cards[idx])} :
           /\ ~SkipCard(site, cards[idx], info, seen)
           /\ seen' = IF KeepsSeen(site) THEN seen \cup {info.url} ELSE seen
           /\ \E outcome \in Outcomes(site) :
              \E detail_fields \in
                    {IF outcome.ok THEN ParsedPage[site][outcome.page]
                     ELSE IF calls # <<>> /\ calls[Len(calls)].ok
                     THEN ParsedPage[site][calls[Len(calls)].page]
                     ELSE NoFields} :
                 /\ calls' = Append(calls,
                        [card |-> idx, url |-> info.url,
                         ok |-> outcome.ok, page |-> outcome.page,
                         genre |-> Get(detail_fields, "genre_detail")])
                 /\ items' = Append(items, BuildItem(site, info, detail_fields))
                 /\ idx' = idx + 1
                 /\ pc' = IF idx >= Len(cards) THEN "emit" ELSE "collect"
    /\ UNCHANGED <<site, cards, k, sink, success_count, reported>>
    /\ UNCHANGED not_run_vars

\* A loop iteration that fetches the detail page and appends an item.
ProcessCard ==
    /\ pc = "collect"
    /\ \E info \in {extract_card_info(site, cards[idx])} :
           /\ ~SkipCard(site, cards[idx], info, seen)
           /\ seen' = IF KeepsSeen(site) THEN seen \cup {info.url} ELSE seen
           /\ \E outcome \in Outcomes(site) :
              \E detail_fields \in {IF ~outcome.ok THEN NoFields
                                    ELSE ParsedPage[site][outcome.page]} :
                 /\ calls' = Append(calls,
                        [card |-> idx, url |-> info.url,
                         ok |-> outcome.ok, page |-> outcome.page,
                         genre |-> Get(detail_fields, "genre_detail")])
                 /\ IF ~outcome.ok /\ ~CatchesDetailError(site)
                    THEN /\ pc' = "crashed"
                         /\ UNCHANGED <<idx, items>>
                    ELSE /\ items' = Append(items,
                               BuildItem(site, info, detail_fields))
                         /\ idx' = idx + 1
                         /\ pc' = AfterCard(idx)
    /\ UNCHANGED <<site, cards, k, sink, success_count, reported>>
    /\ UNCHANGED not_run_vars

\* angel: an item whose URL is not http-prefixed is not sent.
SkipInvalid ==
    /\ pc = "emit"
    /\ k <= Len(items)
    /\ SkipItem(site, items[k])
    /\ k' = k + 1
    /\ UNCHANGED <<site, cards, pc, idx, seen, items, calls, sink, success_count,
                   reported>>
    /\ UNCHANGED not_run_vars

\* requests.post(...); r.raise_for_status(): the submission succeeds or raises.
PostItem ==
    /\ pc = "emit"
    /\ k <= Len(items)
    /\ ~SkipItem(site, items[k])
    /\ \E ok \in BOOLEAN :
          /\ sink' = Append(sink, [pos |-> k, item |-> items[k], ok |-> ok])
          /\ IF ok
             THEN /\ success_count' = IF CatchesPostError(site) THEN success_count + 1
                                      ELSE success_count
                  /\ k' = k + 1
                  /\ pc' = pc
             ELSE IF CatchesPostError(site)
             THEN /\ k' = k + 1
                  /\ UNCHANGED <<pc, success_count>>
             ELSE /\ pc' = "crashed"
                  /\ UNCHANGED <<k, success_count>>
    /\ UNCHANGED <<site, cards, idx, seen, items, calls, reported>>
    /\ UNCHANGED not_run_vars

\* The count of the final print.
CountOfBuilt == Len(items)

ReportedCount ==
    IF site \in {"angel", "chatpia"} THEN success_count ELSE Len(items)

Report ==
    /\ pc = "emit"
    /\ k > Len(items)
    /\ reported' = <<ReportedCount>>
    /\ pc' = "done"
    /\ UNCHANGED <<site, cards, idx, seen, items, calls, k, sink, success_count>>
    /\ UNCHANGED not_run_vars

Next ==
    \/ FetchListing
    \/ DropCard
    \/ ProcessCard
    \/ SkipInvalid
    \/ PostItem
    \/ Report

Spec == Init /\ [][Next]_vars

(***************************************************************************)
(* Properties of a run                                                     *)
(***************************************************************************)
\* The submissions made so far, by position in the sink log.
Sent == 1..Len(sink)

\* C1: in one run, the detail URLs of the records handed to the sink are
\* pairwise distinct, however many cards share a detail URL.
C1_SubmittedUrlsDistinct ==
    \A a, b \in Sent : a # b => sink[a].item["url"] # sink[b].item["url"]

\* The values a field has when nothing was extracted for it.
Missing == {Empty, Dash}

\* The item built for the n-th call of parse_detail_page carries nothing from
\* a detail page: every field is missing, the genre is the default, and the
\* age is at most the one read from the listing card.
NothingExtracted(n) ==
    /\ n <= Len(items)
    /\ items[n]["url"] = calls[n].url
    /\ \A f \in FieldKeys \ {"age", "genre"} : items[n][f] \in Missing
    /\ items[n]["genre"] = DefaultGenre(site)
    /\ items[n]["age"] \in
           Missing \cup {extract_card_info(site, cards[calls[n].card]).age_from_name}

\* Card i can be kept by every driver: it has a thumbnail, a comment and an
\* http URL that no earlier card of the listing has.
Eligible(i) ==
    LET info == extract_card_info(site, cards[i])
    IN  /\ cards[i].href # Empty
        /\ cards[i].samune # Empty
        /\ cards[i].oneword # Empty
        /\ StartsWith(info.url, Http)
        /\ \A j \in 1..(i - 1) : cards[j].href # cards[i].href

\* C2: a failure of parse_detail_page for one card is caught; the run is not
\* aborted in the card loop, the card's detail fields are taken as all empty,
\* and every later card of the listing is still extracted.
C2_DetailFailureIsPerCard ==
    /\ pc = "crashed" => idx > Len(cards)
    /\ \A n \in 1..Len(calls) : ~calls[n].ok => NothingExtracted(n)
    /\ pc \in {"emit", "done", "crashed"} =>
           \A i \in 1..Len(cards) :
               Eligible(i) => \E n \in 1..Len(calls) : calls[n].card = i

\* A run in which the detail page of one card failed and a later card was
\* extracted from its page and submitted.
C2_Witness ==
    /\ pc = "done"
    /\ \E n \in 1..Len(calls), m \in 1..Len(calls), t \in Sent :
          /\ n < m
          /\ ~calls[n].ok
          /\ calls[m].ok
          /\ sink[t].pos = m

\* C3: a failed submission does not stop emission: once the run has ended,
\* every record after a failed one in the item list has been submitted too.
C3_FailedPostDoesNotStopEmission ==
    pc \in {"done", "crashed"} =>
        \A t \in Sent :
            ~sink[t].ok =>
                \A j \in (sink[t].pos + 1)..Len(items) :
                    \/ SkipItem(site, items[j])
                    \/ \E u \in Sent : sink[u].pos = j

\* C4: every submitted record has all twelve field keys, each holding a
\* non-empty string or the sentinel "-", never the empty string.
C4_SubmittedFieldsFilled ==
    \A t \in Sent :
        \A f \in FieldKeys :
            /\ f \in DOMAIN sink[t].item
            /\ sink[t].item[f] # Empty

\* C7: parse_detail_page is never called for a card whose detail URL is
\* empty, not http-prefixed, or the URL of an earlier call of the run.
C7_NoExtractionForDroppedCards ==
    \A n \in 1..Len(calls) :
        /\ calls[n].url # Empty
        /\ StartsWith(calls[n].url, Http)
        /\ \A m \in 1..(n - 1) : calls[m].url # calls[n].url

\* The card a submitted record was built from.
CardOf(t) == cards[calls[sink[t].pos].card]

\* C8: no submitted record comes from a card without a name (no name
\* element, or a name that is empty after sanitization) or has a detail URL
\* that is not well formed.
C8_InvalidRecordsNotSubmitted ==
    \A t \in Sent :
        /\ CardOf(t).name # Empty
        /\ sanitize_profile_name(CardOf(t).name) # Empty
        /\ StartsWith(sink[t].item["url"], Http)

\* C9: a run ends without its final report only when the listing fetch
\* failed; with a fetched listing it always reaches the report.
C9_OnlyListingFailureAborts ==
    pc \notin {"start", "collect", "emit", "done"} => pc = "failed"

\* C10: the count reported at the end is the number of records whose
\* submission succeeded.
C10_ReportCountsSuccesses ==
    pc = "done" => reported = <<Cardinality({t \in Sent : sink[t].ok})>>

\* A finished run that reports fewer successes than it built records.
C10_Witness ==
    /\ pc = "done"
    /\ reported # <<>>
    /\ reported[1] >= 1
    /\ reported[1] < Len(items)
    /\ \E t \in Sent : ~sink[t].ok

\* C11: when several cards share a detail URL, parse_detail_page is called at
\* most once for that URL, and the record built for it comes from the first
\* card of the listing that has this URL.
C11_SharedUrlExtractedOnce ==
    /\ \A n, m \in 1..Len(calls) : n # m => calls[n].url # calls[m].url
    /\ \A j \in 1..Len(items) :
           \A i \in 1..(calls[j].card - 1) :
               cards[i].href # cards[calls[j].card].href

\* The submissions whose record was built from a fetched detail page that has
\* no profile container.
SentFromBlankPage ==
    {t \in Sent : calls[sink[t].pos].ok
                 /\ ~RunPages(site)[calls[sink[t].pos].page].box}

\* C12: for a detail page with no profile container, the emitted record has
\* the name and the detail URL of the listing card, and every one of the
\* twelve field values is the sentinel "-".
C12_BlankPageGivesDashes ==
    \A t \in SentFromBlankPage :
        LET info == extract_card_info(site, CardOf(t))
        IN  /\ sink[t].item["name"] = info.name
            /\ sink[t].item["url"] = info.url
            /\ \A f \in FieldKeys : sink[t].item[f] = Dash

\* The genre parse_detail_page returned for the n-th call: nothing when the
\* page failed.
ExtractedGenre(n) == calls[n].genre

\* C14: the genre of every emitted record is the per-source default label
\* when no genre was extracted from the detail page (also when the page
\* failed) and the extracted genre otherwise; it is never empty and never the
\* sentinel "-".
C14_GenreDefaultsToSourceLabel ==
    \A t \in Sent :
        \A extracted \in {ExtractedGenre(sink[t].pos)} :
            /\ extracted = Empty => sink[t].item["genre"] = DefaultGenre(site)
            /\ extracted # Empty => sink[t].item["genre"] = extracted
            /\ sink[t].item["genre"] \notin {Empty, Dash}

\* A run that emitted one record of a failed detail page, with the default
\* label, and one record with a genre read from its page.
C14_Witness ==
    \E t, u \in Sent :
        /\ ~calls[sink[t].pos].ok
        /\ sink[t].item["genre"] = DefaultGenre(site)
        /\ ExtractedGenre(sink[u].pos) \notin {Empty, DefaultGenre(site)}
        /\ sink[u].item["genre"] = ExtractedGenre(sink[u].pos)

\* A non-empty string made only of decimal digits.
AllDigits(value) ==
    value # Empty /\ \A i \in 1..Len(value) : value[i] \in Digits

\* C15: the age of every emitted record is the sentinel "-" or a non-empty
\* string of decimal digits, never free text.
C15_EmittedAgeIsDigits ==
    \A t \in Sent : sink[t].item["age"] = Dash \/ AllDigits(sink[t].item["age"])

\* Card i has a name, also after sanitization, and a well-formed detail URL
\* that no earlier card of the listing has.
Qualifies(i) ==
    /\ cards[i].name # Empty
    /\ cards[i].href # Empty
    /\ \A j \in 1..(i - 1) : cards[j].href # cards[i].href
    /\ sanitize_profile_name(cards[i].name) # Empty
    /\ StartsWith(extract_card_info(site, cards[i]).url, Http)

HasMedia(i) == cards[i].samune # Empty /\ cards[i].oneword # Empty

\* A record was built for card i, and it was submitted if the run has
\* reached its report.
RecordEmitted(i) ==
    \E n \in 1..Len(items) :
        /\ calls[n].card = i
        /\ pc = "done" => \E t \in Sent : sink[t].pos = n

\* C19 as stated: thumbnail and comment are optional; a card with a name and
\* a well-formed, not yet seen detail URL yields an emitted record also
\* without a thumbnail or a comment.
C19_MediaOptional ==
    pc \in {"emit", "done", "crashed"} =>
        \A i \in 1..Len(cards) : Qualifies(i) => RecordEmitted(i)

\* C19, amended: the same for scrape_angel, scrape_madam and scrape_jewel;
\* scrape_chatpia requires both and drops a card that lacks the thumbnail or
\* the comment before any extraction.
C19_MediaOptionalExceptChatpia ==
    pc \in {"emit", "done", "crashed"} =>
        \A i \in 1..Len(cards) :
            /\ ((site = "chatpia" => HasMedia(i)) /\ Qualifies(i)) => RecordEmitted(i)
            /\ (site = "chatpia" /\ ~HasMedia(i))
                   => \A n \in 1..Len(calls) : calls[n].card # i

\* A finished run that submitted the record of a card with neither thumbnail
\* nor comment.
C19_Witness ==
    /\ pc = "done"
    /\ \E t \in Sent :
          /\ CardOf(t).samune = Empty
          /\ CardOf(t).oneword = Empty
          /\ Qualifies(calls[sink[t].pos].card)

\* C25 as stated: the record of a card is submitted before the detail
\* extraction of the next card starts: once a later extraction has started,
\* every earlier record that passes validation is in the sink.
C25_EmittedBeforeNextExtraction ==
    \A n \in 2..Len(calls) :
        \A m \in 1..(n - 1) :
            (m <= Len(items) /\ ~SkipItem(site, items[m]))
                => \E t \in 1..Len(sink) : sink[t].pos = m

\* C25, amended: a run has two phases.  Every card of the listing has gone
\* through the collection loop before the first record is submitted, no
\* extraction happens after a submission, and the records are submitted one
\* at a time in the order they were built, each as it was built.
C25_CollectThenEmit ==
    /\ pc \in {"emit", "done"} => idx > Len(cards)
    /\ sink # <<>> => pc \in {"emit", "done", "crashed"}
    /\ \A t \in 1..Len(sink) :
          /\ sink[t].pos \in 1..Len(items)
          /\ sink[t].item = items[sink[t].pos]
          /\ \A u \in 1..(t - 1) : sink[u].pos < sink[t].pos

\* A finished run over two cards: both detail pages were extracted, then both
\* records were submitted, in card order.
C25_Witness ==
    /\ pc = "done"
    /\ Len(calls) = 2
    /\ calls[1].card = 1
    /\ calls[2].card = 2
    /\ Len(sink) = 2
    /\ sink[1].pos = 1
    /\ sink[2].pos = 2

\* The record a run builds for the card of the n-th extraction when that
\* card is the only card of its listing and its detail page is answered in
\* the same way.
BuiltAlone(n) ==
    BuildItem(site, extract_card_info(site, cards[calls[n].card]),
              IF calls[n].ok THEN ParsedPage[site][calls[n].page] ELSE NoFields)

\* C26: the record built for a card depends only on that card and its own
\* detail page: when the collection loop has ended, every record is the one
\* the card and its own detail page give alone, whatever the content or the
\* failure of the detail pages of the other cards.
C26_RecordFromOwnCardAndPage ==
    (pc = "emit" /\ k = 1 /\ sink = <<>>) =>
        /\ Len(items) = Len(calls)
        /\ \A n \in 1..Len(items) : items[n] = BuiltAlone(n)

\* The first card's detail page was parsed and gave a height, the extraction
\* of the second card failed: the second record holds no height.
C26_Witness ==
    /\ pc = "emit"
    /\ k = 1
    /\ sink = <<>>
    /\ Len(items) = 2
    /\ calls[1].ok
    /\ calls[1].page = 2
    /\ ~calls[2].ok
    /\ items[1]["height"] = T160cm
    /\ items[2]["height"] \in {Empty, Dash}

(***************************************************************************)
(* SpecParse: parse_detail_page applied to one page of one site.           *)
(***************************************************************************)

ParseInit ==
    /\ p_site \in Sites
    /\ p_page \in PagesOf(p_site)
    /\ p_pc = "fetched"
    /\ p_fields = EmptyFields
    /\ RunIdle
    /\ FnIdle
    /\ SheetIdle
    /\ FallbackIdle
    /\ ListingIdle

Parse ==
    /\ p_pc = "fetched"
    /\ p_fields' = parse_detail_page(p_site, BuildDoc(p_page))
    /\ p_pc' = "parsed"
    /\ UNCHANGED <<p_site, p_page>>
    /\ UNCHANGED not_parse_vars

ParseNext == Parse

SpecParse == ParseInit /\ [][ParseNext]_vars

(***************************************************************************)
(* Properties of parse_detail_page                                         *)
(***************************************************************************)
p_doc == BuildDoc(p_page)

\* The three stages of one field, each taken on its own.
StructuredValue(key) == StructuredPass(p_site, p_doc)[key]

SelectorValue(key) ==
    IF key \in SelectorKeys THEN pick_from_selector(p_site, p_doc, key) ELSE Empty

GenericValue(key) ==
    IF \E n \in 1..Len(label_map(p_site)) : label_map(p_site)[n].field = key
    THEN find_labeled_value(p_doc, KeywordsOf(p_site, key))
    ELSE Empty

\* A value as extracted, or, for the age, reduced to its digits.
Normalised(key, v) ==
    IF key = "age" THEN {v, extract_age_digits(v)} ELSE {v}

\* The variants built on the dl/table profile region.
ProfileSites == {"angel", "madam", "jewel"}

\* C5: for every field key, parse_detail_page returns the first non-empty
\* value among the structured-container value, the selector-fallback value
\* (age, height, cup, face_public only) and the generic label-sibling value,
\* in this order.
C5_FirstNonEmptyStage ==
    (p_pc = "parsed" /\ p_site \in ProfileSites) =>
        \A key \in DetailKeySet :
            p_fields[key] \in Normalised(key, first_non_empty(StructuredValue(key),
                                                              SelectorValue(key),
                                                              GenericValue(key)))

\* The dt/dd pairs of the profile region that have a value and whose label
\* holds a keyword of key.
PairsFor(key) ==
    {n \in 1..Len(p_page.pairs) :
        \E m \in 1..Len(label_map(p_site)) :
            /\ p_page.pairs[n][2] # Empty
            /\ label_map(p_site)[m].field = key
            /\ AnyKeyIn(p_page.pairs[n][1], label_map(p_site)[m].keywords)}

\* C6: on a page whose profile region holds definition-list pairs, every
\* field with a keyword in a label of the region ends up with the value
\* paired with such a label, whatever the fallbacks would return.
C6_LabelledFieldsExtracted ==
    (p_pc = "parsed" /\ p_site \in ProfileSites /\ p_page.box) =>
        \A key \in DetailKeySet :
            PairsFor(key) # {} =>
                \E n \in PairsFor(key) :
                    p_fields[key] \in Normalised(key, p_page.pairs[n][2])

\* The page ends with a label element for key directly followed by a span,
\* no keyword of key occurs in any element before them, and no selector of
\* the fallback lists yields a value for key.
LabelSpanOnly(key) ==
    /\ \E m \in 1..Len(label_map(p_site)) : label_map(p_site)[m].field = key
    /\ Len(p_page.extra) = 2
    /\ p_page.extra[2].tag = "span"
    /\ AnyKeyIn(p_page.extra[1].text, KeywordsOf(p_site, key))
    /\ \A i \in 1..(Len(p_doc) - 2) : ~AnyKeyIn(p_doc[i].text, KeywordsOf(p_site, key))
    /\ SelectorValue(key) = Empty

\* C13: a field whose label and value occur only outside every definition
\* list and table, with no selector matching and the label element directly
\* followed by a span holding the value, gets that span's text.
C13_LabelSpanRecovered ==
    (p_pc = "parsed" /\ p_site \in ProfileSites) =>
        \A key \in DetailKeySet :
            LabelSpanOnly(key) =>
                p_fields[key] \in Normalised(key, p_page.extra[2].text)

(***************************************************************************)
(* SpecDigits: extract_age_digits applied to one string.                   *)
(***************************************************************************)
MaxValueLen == 3

\* The characters of the strings tried: digits, letters, the suffix "sai".
ValueChars == {"5", "3", "a", "b", "c", "sai"}

DigitsInit ==
    /\ f_pc = "value"
    /\ f_value \in SeqUpTo(ValueChars, MaxValueLen)
    /\ f_digits = Empty
    /\ f_site = "angel"
    /\ f_info = Info(Empty, Empty, Empty, Empty, Empty)
    /\ f_detail = NoFields
    /\ f_item = NoFields
    /\ f_again = NoFields
    /\ RunIdle
    /\ ParseIdle
    /\ SheetIdle
    /\ FallbackIdle
    /\ ListingIdle

ExtractAge ==
    /\ f_pc = "value"
    /\ f_digits' = extract_age_digits(f_value)
    /\ f_pc' = "digits"
    /\ UNCHANGED <<f_value, f_site, f_info, f_detail, f_item, f_again>>
    /\ UNCHANGED not_fn_vars

DigitsNext == ExtractAge

SpecDigits == DigitsInit /\ [][DigitsNext]_vars

\* The positions of value that hold a decimal digit.
DigitPositions(value) == {i \in 1..Len(value) : value[i] \in Digits}

\* The first maximal run of decimal digits of value, stated by its ends.
FirstMaximalRun(value) ==
    IF DigitPositions(value) = {} THEN Empty
    ELSE LET from == CHOOSE i \in DigitPositions(value) :
                         \A j \in DigitPositions(value) : i <= j
             to == CHOOSE e \in from..Len(value) :
                       /\ \A x \in from..e : value[x] \in Digits
                       /\ e = Len(value) \/ value[e + 1] \notin Digits
         IN  SubSeq(value, from, to)

\* C16: extract_age_digits returns the first maximal run of decimal digits
\* occurring anywhere in the value, and the empty string when the value is
\* empty or holds no digit ("53sai" gives "53", "" gives "", "abc" gives "").
C16_FirstDigitRun ==
    f_pc = "digits" =>
        /\ f_digits = FirstMaximalRun(f_value)
        /\ f_value = <<"5", "3", "sai">> => f_digits = <<"5", "3">>
        /\ f_value = Empty => f_digits = Empty
        /\ f_value = <<"a", "b", "c">> => f_digits = Empty

\* A value whose first digit run starts after a letter and ends before more
\* text has been reduced to that run.
C16_Witness ==
    /\ f_pc = "digits"
    /\ f_value = <<"a", "5", "sai">>
    /\ f_digits = <<"5">>

(***************************************************************************)
(* SpecAssemble: the record assembly of a driver (`item = {...}` and the   *)
(* dash filling) applied to the fields of one card, then applied again to  *)
(* the record it gave.                                                     *)
(***************************************************************************)
\* Age texts a detail page may give.
AgeTexts == {Empty, Dash, T25sai, <<"5", "3">>, <<"a", "b", "c">>}

\* The detail fields tried: none (the page failed), or an age, a height and
\* a genre, the other fields empty.
AssembleDetails ==
    {NoFields} \cup
    { [key \in DetailKeySet |->
          CASE key = "age" -> a
            [] key = "height" -> h
            [] key = "genre_detail" -> g
            [] OTHER -> Empty] :
      a \in AgeTexts, h \in {Empty, Dash, T160cm}, g \in {Empty, Dash, TShinjin} }

AssembleInfos ==
    {Info(<<"A">>, TThumb, base_url \o <<"p1">>, TWord, a) : a \in {Empty, <<"5", "3">>}}

AssembleInit ==
    /\ f_pc = "fields"
    /\ f_site \in Sites
    /\ f_info \in AssembleInfos
    /\ f_detail \in AssembleDetails
    /\ f_item = NoFields
    /\ f_again = NoFields
    /\ f_value = Empty
    /\ f_digits = Empty
    /\ RunIdle
    /\ ParseIdle
    /\ SheetIdle
    /\ FallbackIdle
    /\ ListingIdle

\* The fields of a record read back as detail fields.
DetailOf(item) ==
    [key \in DetailKeySet |-> IF key = "genre_detail" THEN item["genre"] ELSE item[key]]

Assemble ==
    /\ f_pc = "fields"
    /\ f_item' = BuildItem(f_site, f_info, f_detail)
    /\ f_pc' = "once"
    /\ UNCHANGED <<f_value, f_digits, f_site, f_info, f_detail, f_again>>
    /\ UNCHANGED not_fn_vars

Reassemble ==
    /\ f_pc = "once"
    /\ f_again' = BuildItem(f_site, f_info, DetailOf(f_item))
    /\ f_pc' = "twice"
    /\ UNCHANGED <<f_value, f_digits, f_site, f_info, f_detail, f_item>>
    /\ UNCHANGED not_fn_vars

AssembleNext ==
    \/ Assemble
    \/ Reassemble

SpecAssemble == AssembleInit /\ [][AssembleNext]_vars

\* C17: record assembly is idempotent: assembling again from a record that
\* is already the output of the assembly gives the same record, also when
\* the record holds the sentinel "-".
C17_AssemblyIdempotent ==
    f_pc = "twice" => f_again = f_item

\* A record holding the digits of its age, the sentinel for its height and
\* the default genre has been assembled a second time.
C17_Witness ==
    /\ f_pc = "twice"
    /\ f_site \in {"angel", "chatpia"}
    /\ Get(f_detail, "age") = T25sai
    /\ Get(f_detail, "height") = Empty
    /\ f_detail # NoFields
    /\ f_item["age"] = <<"2", "5">>
    /\ f_item["height"] = Dash
    /\ f_item["genre"] = DefaultGenre(f_site)
    /\ f_again = f_item

(***************************************************************************)
(* SpecSheet: one run of a spreadsheet script (update_sheet.main,          *)
(* scrape_madamlive.main, dmm_scraper.main).  The worksheet is a sequence  *)
(* of rows, a row a sequence of cells.                                     *)
(***************************************************************************)
Scripts == {"update_sheet", "scrape_madamlive", "dmm_scraper"}

MaxEntries == 2

\* HEADERS of update_sheet.py: the sixteen column titles of A1:P1.
HEADERS ==
    << <<"n", "a", "m", "e">>, <<"s", "a", "m", "u", "n", "e">>, <<"u", "r", "l">>,
       <<"o", "n", "e", "w", "o", "r", "d">>,
       KwAge[1], KwHeight[1], <<"k_ka", "k_xtu", "k_pu", "suu">>, KwFace[1],
       KwToy[1], KwTime[1], KwStyle[1], KwJob[1],
       KwHobby[1], KwFavorite[1], KwZone[1], KwGenreMadam[1] >>

\* An entry of parse_listing.
ListingEntry(name, url, image, comment) ==
    [name |-> name, url |-> url, image |-> image, comment |-> comment]

SheetUrls == {base_url \o <<"p1">>, base_url \o <<"p2">>}

EntryDomain ==
    {ListingEntry(<<"A">>, u, TThumb, c) : u \in SheetUrls, c \in {Empty, TWord}}

\* The twelve detail values of a row, in column order: what parse_detail
\* gave for the twelve keys the script reads.
DetailCells == {[n \in 1..12 |-> Empty], [n \in 1..12 |-> IF n = 2 THEN T160cm ELSE Empty]}

\* row = [item["name"], item["image"], item["url"], item["comment"], ...]
RowOf(entry, detail) ==
    <<entry.name, entry.image, entry.url, entry.comment>> \o detail

\* Worksheets a run may start from: empty, headers only, headers and a row,
\* a row without headers.
OldRow == RowOf(ListingEntry(<<"B">>, base_url \o <<"p1">>, TThumb, TWord),
                [n \in 1..12 |-> Empty])

StartSheets == {<<>>, <<HEADERS>>, <<HEADERS, OldRow>>, <<OldRow>>}

\* ws.col_values(3)
col_values(sheet, col) ==
    {sheet[r][col] : r \in {x \in 1..Len(sheet) : Len(sheet[x]) >= col}}

SheetInit ==
    /\ s_script \in Scripts
    /\ s_pc = "open"
    /\ s_sheet \in StartSheets
    /\ s_before = s_sheet
    /\ s_base = 0
    /\ s_entries \in SeqUpTo(EntryDomain, MaxEntries)
    /\ s_existing = {}
    /\ s_i = 1
    /\ RunIdle
    /\ ParseIdle
    /\ FnIdle
    /\ FallbackIdle
    /\ ListingIdle

\* ensure_headers(ws), update_sheet only: row 1 is overwritten with HEADERS
\* unless it already starts with them.
ensure_headers(sheet) ==
    IF sheet = <<>> THEN <<HEADERS>>
    ELSE IF Len(sheet[1]) >= 16 /\ SubSeq(sheet[1], 1, 16) = HEADERS THEN sheet
    ELSE [sheet EXCEPT ![1] = HEADERS \o SubSeq(sheet[1], 17, Len(sheet[1]))]

\* ws = open_sheet(); ensure_headers(ws); existing = set(ws.col_values(3))
ReadUrlColumn ==
    /\ s_pc = "open"
    /\ LET opened == IF s_script = "update_sheet" THEN ensure_headers(s_sheet)
                     ELSE s_sheet
       IN  /\ s_sheet' = opened
           /\ s_base' = Len(opened)
           /\ s_existing' = col_values(opened, 3)
    /\ s_pc' = "listing"
    /\ UNCHANGED <<s_script, s_before, s_entries, s_i>>
    /\ UNCHANGED not_sheet_vars

\* listing_html = fetch_html(LISTING_URL); if not listing_html: return
FetchSheetListing ==
    /\ s_pc = "listing"
    /\ \E ok \in BOOLEAN : s_pc' = IF ok THEN "rows" ELSE "done"
    /\ UNCHANGED <<s_script, s_sheet, s_before, s_base, s_entries, s_existing, s_i>>
    /\ UNCHANGED not_sheet_vars

\* if item["url"] in existing: continue
SkipKnownUrl ==
    /\ s_pc = "rows"
    /\ s_i <= Len(s_entries)
    /\ s_entries[s_i].url \in s_existing
    /\ s_i' = s_i + 1
    /\ UNCHANGED <<s_script, s_pc, s_sheet, s_before, s_base, s_entries, s_existing>>
    /\ UNCHANGED not_sheet_vars

\* detail_html = fetch_html(item["url"]); if not detail_html: continue
SkipUnfetched ==
    /\ s_pc = "rows"
    /\ s_i <= Len(s_entries)
    /\ s_entries[s_i].url \notin s_existing
    /\ s_i' = s_i + 1
    /\ UNCHANGED <<s_script, s_pc, s_sheet, s_before, s_base, s_entries, s_existing>>
    /\ UNCHANGED not_sheet_vars

\* detail = parse_detail(detail_html); ws.append_row(row)
AppendRow ==
    /\ s_pc = "rows"
    /\ s_i <= Len(s_entries)
    /\ s_entries[s_i].url \notin s_existing
    /\ \E detail \in DetailCells :
          s_sheet' = Append(s_sheet, RowOf(s_entries[s_i], detail))
    /\ s_i' = s_i + 1
    /\ UNCHANGED <<s_script, s_pc, s_before, s_base, s_entries, s_existing>>
    /\ UNCHANGED not_sheet_vars

\* The loop over the entries has ended.
FinishSheet ==
    /\ s_pc = "rows"
    /\ s_i > Len(s_entries)
    /\ s_pc' = "done"
    /\ UNCHANGED <<s_script, s_sheet, s_before, s_base, s_entries, s_existing, s_i>>
    /\ UNCHANGED not_sheet_vars

SheetNext ==
    \/ ReadUrlColumn
    \/ FetchSheetListing
    \/ SkipKnownUrl
    \/ SkipUnfetched
    \/ AppendRow
    \/ FinishSheet

SpecSheet == SheetInit /\ [][SheetNext]_vars

\* The rows of a worksheet that hold url in the URL column.
RowsWith(sheet, url) == {r \in 1..Len(sheet) : Len(sheet[r]) >= 3 /\ sheet[r][3] = url}

\* C18: a row is appended only for an entry whose URL is not in the URL
\* column, every appended row has exactly 16 cells with the URL in the third,
\* and no URL occurs in more than one row unless it did before the run.
C18_SheetRowsKeyedByUrl ==
    s_pc \in {"rows", "done"} =>
        /\ \A r \in (s_base + 1)..Len(s_sheet) :
              /\ Len(s_sheet[r]) = 16
              /\ \E e \in 1..Len(s_entries) : s_sheet[r][3] = s_entries[e].url
              /\ \A q \in 1..(r - 1) : Len(s_sheet[q]) >= 3 => s_sheet[q][3] # s_sheet[r][3]
        /\ \A u \in SheetUrls :
              Cardinality(RowsWith(s_sheet, u)) > 1
                  => Cardinality(RowsWith(s_before, u)) > 1

\* The label/value pairs the structured pass reads from the profile region:
\* those of the definition lists, then those of the table rows.
PassPairs ==
    LET container == select_one(p_doc, 0, ContainerGroup(p_site))
    IN  IF container = 0 THEN <<>>
        ELSE SelectSeq(DlPairs(p_site, p_doc, container)
                           \o TablePairs(p_site, p_doc, container),
                       LAMBDA pair : pair[1] # Empty)

\* The first field, in dictionary order, one of whose keywords is a substring
\* of label; "" when no field matches.
FirstField(label) ==
    LET lm == label_map(p_site)
        hit == {m \in 1..Len(lm) :
                   \E w \in 1..Len(lm[m].keywords) : Contains(label, lm[m].keywords[w])}
    IN  IF hit = {} THEN ""
        ELSE lm[CHOOSE m \in hit : \A o \in hit : m <= o].field

\* The values of the pairs whose first matching field is key.
ValuesFor(key) ==
    {PassPairs[n][2] : n \in {x \in 1..Len(PassPairs) : FirstField(PassPairs[x][1]) = key}}

\* C20: in the structured pass a pair sets the first field, in dictionary
\* order, that has a keyword in the label, and no other: a field is set only
\* from a pair for which it is that first field.
C20_PairSetsFirstMatchOnly ==
    (p_pc = "parsed" /\ p_site \in ProfileSites) =>
        \A key \in DetailKeySet \ {"genre_detail"} :
            /\ StructuredValue(key) # Empty => StructuredValue(key) \in ValuesFor(key)
            /\ ValuesFor(key) # {} => StructuredValue(key) \in ValuesFor(key)

(***************************************************************************)
(* SpecFallback: the two fallbacks of parse_detail_page, the selector list *)
(* (pick_from_selector / pick_from_selectors) and find_labeled_value,      *)
(* applied to one document for one field.                                  *)
(***************************************************************************)
MaxNodes == 2

\* The elements a document is made of, for one field: elements the field's
\* selectors match (with and without text), a label element as dt and as b,
\* plain value elements.
FallbackNodes(s, key) ==
    LET cls == selectors("angel", key)[1].cls
        pcls == selectors("jewel", key)[1].cls
        label == KeywordsOf(s, key)[1]
    IN  { Node("div", cls, 0, Empty), Node("div", cls, 0, <<"3", "0">>),
          Node("span", cls, 0, Empty), Node("span", cls, 0, <<"2", "5">>),
          Node("li", cls, 0, <<"4", "0">>), Node("dd", pcls, 0, <<"2", "0">>),
          Node("dt", {}, 0, label), Node("dd", {}, 0, <<"2", "2">>),
          Node("b", {}, 0, label), Node("span", {}, 0, <<"3", "3">>),
          Node("p", {}, 0, Empty) }

\* The documents: up to MaxNodes sibling elements, top-level or the children
\* of one <html> element.
FallbackDocs(s, key) ==
    UNION { {block, Place(<<Node("html", {}, 0, Empty)>>, block, 1)} :
                block \in SeqUpTo(FallbackNodes(s, key), MaxNodes) }

FallbackInit ==
    /\ d_site \in ProfileSites
    /\ d_key \in SelectorKeys
    /\ d_doc \in FallbackDocs(d_site, d_key)
    /\ d_pc = "doc"
    /\ d_text = Empty
    /\ RunIdle
    /\ ParseIdle
    /\ FnIdle
    /\ SheetIdle
    /\ ListingIdle

\* pick_from_selector(key)
PickSelector ==
    /\ d_pc = "doc"
    /\ d_text' = pick_from_selector(d_site, d_doc, d_key)
    /\ d_pc' = "picked"
    /\ UNCHANGED <<d_site, d_key, d_doc>>
    /\ UNCHANGED not_fallback_vars

\* find_labeled_value(soup, label_map[key])
FindLabeled ==
    /\ d_pc = "doc"
    /\ d_text' = find_labeled_value(d_doc, KeywordsOf(d_site, d_key))
    /\ d_pc' = "found"
    /\ UNCHANGED <<d_site, d_key, d_doc>>
    /\ UNCHANGED not_fallback_vars

FallbackNext ==
    \/ PickSelector
    \/ FindLabeled

SpecFallback == FallbackInit /\ [][FallbackNext]_vars

\* The text of the element the n-th selector of the field's list selects:
\* the first element of the document that has the selector's tag name and
\* classes; "" when it selects nothing.
SelectedText(n) ==
    LET sel == selectors(d_site, d_key)[n]
        hits == {j \in 1..Len(d_doc) :
                    /\ sel.tag \in {"", d_doc[j].tag}
                    /\ sel.cls \subseteq d_doc[j].cls}
    IN  IF hits = {} THEN Empty
        ELSE text_content(d_doc, CHOOSE j \in hits : \A o \in hits : j <= o)

\* C21: the selector fallback returns the text of the first selector, in the
\* written order of the field's list, whose selected element has non-empty
\* text, and "" when no selector yields text; a later selector's text is
\* returned only when every earlier selector gave nothing.
C21_FirstSelectorWithTextWins ==
    d_pc = "picked" =>
        \A n \in 1..Len(selectors(d_site, d_key)) :
            /\ (\A m \in 1..Len(selectors(d_site, d_key)) : SelectedText(m) = Empty)
                   => d_text = Empty
            /\ (SelectedText(n) # Empty /\ \A m \in 1..(n - 1) : SelectedText(m) = Empty)
                   => d_text = SelectedText(n)

\* The first selector selects an element without text, the second one an
\* element with text, and the text of the second has been returned.
C21_Witness ==
    /\ d_pc = "picked"
    /\ d_site = "angel"
    /\ d_key = "cup"
    /\ d_doc = <<Node("div", {"cup"}, 0, Empty), Node("span", {"cup"}, 0, <<"2", "5">>)>>
    /\ SelectedText(1) = Empty
    /\ SelectedText(2) = <<"2", "5">>
    /\ d_text = <<"2", "5">>

\* The first element, in document order, whose own text holds a keyword of
\* the field; 0 when there is none.
OwnTextLabel ==
    LET hits == {j \in 1..Len(d_doc) :
                    AnyKeyIn(d_doc[j].text, KeywordsOf(d_site, d_key))}
    IN  IF hits = {} THEN 0 ELSE CHOOSE j \in hits : \A o \in hits : j <= o

\* The first sibling after element i with the given tag name; 0 if none.
PairedCell(i, name) ==
    LET hits == {j \in (i + 1)..Len(d_doc) :
                    d_doc[j].parent = d_doc[i].parent /\ d_doc[j].tag = name}
    IN  IF hits = {} THEN 0 ELSE CHOOSE j \in hits : \A o \in hits : j <= o

\* The nearest element after element i, in document order, that is a dd, td,
\* span, div, p or li; 0 if none.
NearestValue(i) ==
    LET hits == {j \in (i + 1)..Len(d_doc) : d_doc[j].tag \in ValueTags}
    IN  IF hits = {} THEN 0 ELSE CHOOSE j \in hits : \A o \in hits : j <= o

\* C22: find_labeled_value picks the first element in document order whose
\* own text matches a keyword; for a dt (th) with a following dd (td) sibling
\* it returns the text of that cell, otherwise the text of the nearest
\* following dd, td, span, div, p or li; "" when no element matches.
C22_LabelIsFirstOwnTextMatch ==
    d_pc = "found" =>
        \A label \in {OwnTextLabel} :
            d_text =
                IF label = 0 THEN Empty
                ELSE IF d_doc[label].tag = "dt" /\ PairedCell(label, "dd") # 0
                     THEN text_content(d_doc, PairedCell(label, "dd"))
                ELSE IF d_doc[label].tag = "th" /\ PairedCell(label, "td") # 0
                     THEN text_content(d_doc, PairedCell(label, "td"))
                ELSE text_content(d_doc, NearestValue(label))

\* The page with the same profile region and the same tag/badge elements but
\* without its label/value pairs (no definition list, no table row).
WithoutPairs(page) ==
    [page EXCEPT !.pairs = <<>>, !.breaks = <<>>, !.rows = <<>>]

\* C23: the genre value of the structured pass depends only on the tag/badge
\* elements of the profile region: a page and the page with the same
\* tag/badge elements and no label/value pair give the same genre, and that
\* genre is the non-empty tag texts joined with ", ".
C23_GenreFromTagsOnly ==
    (p_pc = "parsed" /\ p_site \in ProfileSites /\ p_page.box) =>
        \A genre \in {StructuredValue("genre_detail")} :
            /\ genre = StructuredPass(p_site, BuildDoc(WithoutPairs(p_page)))["genre_detail"]
            /\ genre = Join(NonEmpty(p_page.tags), <<",", " ">>)

(***************************************************************************)
(* SpecListing: the choice of the card elements of a listing page at the   *)
(* start of scrape_angel, scrape_chatpia, scrape_madam and scrape_jewel.   *)
(* An attribute test of a selector ([href], [id^='stat_'], the href        *)
(* pattern of find_all) is a class-like token of the element.              *)
(***************************************************************************)
\* A candidate: the selector string of one soup.select call, a comma group
\* of simple selectors, optionally below an ancestor (`section a[href]`).
Cand(scope, group) == [scope |-> scope, group |-> group]

\* The candidates in the order the driver tries them.
CardCandidates(s) ==
    CASE s = "angel" ->
            << Cand("", {Sel("li", {"girl-line__item"}),
                         Sel("li", {"girl-line__item", "chatbox_big"}),
                         Sel("li", {"girl-line__item", "chatbox_big", "event_now"})}),
               Cand("", {Sel("li", {"girl-line__item"})}),
               Cand("", {Sel("li", {})}) >>
      [] s = "chatpia" ->
            << Cand("", {Sel("div", {"chatbox_big"}), Sel("div", {"chatbox_small"})}),
               Cand("", {Sel("div", {"chatbox_big"}), Sel("div", {"chatbox-box"}),
                         Sel("div", {"line"})}) >>
      [] s = "madam" ->
            << Cand("", {Sel("div", {"cast-box"})}),
               Cand("", {Sel("li", {"cast"})}),
               Cand("", {Sel("div", {"card"})}),
               Cand("", {Sel("dl", {"onlinegirl-dl-big"})}),
               Cand("", {Sel("dl", {"onlinegirl-dl"})}),
               Cand("", {Sel("dl", {"[id^=stat_]"})}),
               Cand("section", {Sel("a", {"[href]"})}),
               Cand("", {Sel("a", {"[href~profile]"})}) >>
      [] OTHER ->
            << Cand("", {Sel("li", {"online-girl", "party"})}) >>

\* soup.select(selector)
SelectCand(doc, cand) ==
    {j \in Select(doc, 0, cand.group) :
        cand.scope = "" \/ \E i \in 1..Len(doc) :
                              doc[i].tag = cand.scope /\ IsInside(doc, j, i)}

\* Every candidate's elements taken together.
MergedYield(doc, cands) ==
    UNION {SelectCand(doc, cands[n]) : n \in 1..Len(cands)}

\* cards = soup.select(selector); if cards: break -- and the `if not cards:`
\* / `or` chains of the other drivers.
RECURSIVE FirstYield(_, _)
FirstYield(doc, cands) ==
    IF cands = <<>> THEN {}
    ELSE IF SelectCand(doc, cands[1]) # {} THEN SelectCand(doc, cands[1])
    ELSE FirstYield(doc, Tail(cands))

\* The blocks a listing page is made of: one element per candidate, elements
\* matched by several candidates, an element no candidate matches.
ListingBlocks(s) ==
    CASE s = "angel" ->
            { <<Node("li", {"girl-line__item"}, 0, Empty)>>,
              <<Node("li", {"girl-line__item", "chatbox_big"}, 0, Empty)>>,
              <<Node("li", {}, 0, Empty)>>,
              <<Node("div", {}, 0, Empty)>> }
      [] s = "chatpia" ->
            { <<Node("div", {"chatbox_big"}, 0, Empty)>>,
              <<Node("div", {"chatbox_small"}, 0, Empty)>>,
              <<Node("div", {"chatbox-box"}, 0, Empty)>>,
              <<Node("div", {"line"}, 0, Empty)>>,
              <<Node("div", {}, 0, Empty)>> }
      [] s = "madam" ->
            { <<Node("div", {"cast-box"}, 0, Empty)>>,
              <<Node("li", {"cast"}, 0, Empty)>>,
              <<Node("div", {"card"}, 0, Empty)>>,
              <<Node("dl", {"onlinegirl-dl-big"}, 0, Empty)>>,
              <<Node("dl", {"onlinegirl-dl"}, 0, Empty)>>,
              <<Node("dl", {"[id^=stat_]"}, 0, Empty)>>,
              <<Node("section", {}, 0, Empty), Node("a", {"[href]"}, 1, Empty)>>,
              <<Node("a", {"[href]", "[href~profile]"}, 0, Empty)>>,
              <<Node("p", {}, 0, Empty)>> }
      [] OTHER ->
            { <<Node("li", {"online-girl", "party"}, 0, Empty)>>,
              <<Node("li", {"online-girl"}, 0, Empty)>>,
              <<Node("li", {}, 0, Empty)>> }

RECURSIVE PlaceAll(_, _)
PlaceAll(doc, blocks) ==
    IF blocks = <<>> THEN doc
    ELSE PlaceAll(Place(doc, blocks[1], 0), Tail(blocks))

ListingDocs(s) ==
    {PlaceAll(<<>>, blocks) : blocks \in SeqUpTo(ListingBlocks(s), MaxNodes)}

ListingInit ==
    /\ l_site \in Sites
    /\ l_doc \in ListingDocs(l_site)
    /\ l_pc = "fetched"
    /\ l_cards = <<>>
    /\ RunIdle
    /\ ParseIdle
    /\ FnIdle
    /\ SheetIdle
    /\ FallbackIdle

\* The card elements the loop `for card in cards` goes through, in order.
SelectCards ==
    /\ l_pc = "fetched"
    /\ l_cards' = InOrder(FirstYield(l_doc, CardCandidates(l_site)))
    /\ l_pc' = "selected"
    /\ UNCHANGED <<l_site, l_doc>>
    /\ UNCHANGED not_listing_vars

ListingNext == SelectCards

SpecListing == ListingInit /\ [][ListingNext]_vars

\* The elements candidate n matches.
Yield(n) == SelectCand(l_doc, CardCandidates(l_site)[n])

CardSet == {l_cards[c] : c \in 1..Len(l_cards)}

\* C24: the cards of a run are the elements of exactly one candidate
\* selector, the first of the ordered list that matches at least one
\* element; an element that only other candidates match is not a card, and
\* there are no cards when no candidate matches.
C24_CardsFromFirstMatchingCandidate ==
    l_pc = "selected" =>
        \A n \in 1..Len(CardCandidates(l_site)) :
            /\ (\A m \in 1..Len(CardCandidates(l_site)) : Yield(m) = {}) => CardSet = {}
            /\ (Yield(n) # {} /\ \A m \in 1..(n - 1) : Yield(m) = {})
                   => /\ CardSet = Yield(n)
                      /\ Len(l_cards) = Cardinality(Yield(n))

\* Two candidates of scrape_madam match elements of the page, and the cards
\* are the elements of the earlier one only.
C24_Witness ==
    /\ l_pc = "selected"
    /\ l_site = "madam"
    /\ Yield(1) = {}
    /\ Yield(2) # {}
    /\ Yield(3) # {}
    /\ CardSet = Yield(2)
    /\ Yield(3) \cap CardSet = {}

(***************************************************************************)
(* SpecPairs: the structured pass of parse_detail_page (the block under    *)
(* `if profile_container:`) applied to one profile region.                 *)
(***************************************************************************)
\* th/td rows of the table: none, one, two for the same field, the second
\* with an empty td, or one with an empty td.
PairRowOptions ==
    RowOptions \cup { << <<KwAge[1], T30sai>>, <<KwAge[1], Empty>> >>,
                      << <<KwJob[1], Empty>> >> }

\* Pages that are a profile region and nothing else.
RegionPages ==
    UNION { { Page("profile", FALSE, TRUE, ps, b, r, t, <<>>) :
                b \in BreaksOf(ps), r \in PairRowOptions, t \in TagOptions }
            : ps \in SeqUpTo(PairDomain, MaxPairs) }

PairsInit ==
    /\ p_site \in ProfileSites
    /\ p_page \in RegionPages
    /\ p_pc = "fetched"
    /\ p_fields = EmptyFields
    /\ RunIdle
    /\ FnIdle
    /\ SheetIdle
    /\ FallbackIdle
    /\ ListingIdle

RunStructuredPass ==
    /\ p_pc = "fetched"
    /\ p_fields' = StructuredPass(p_site, BuildDoc(p_page))
    /\ p_pc' = "structured"
    /\ UNCHANGED <<p_site, p_page>>
    /\ UNCHANGED not_parse_vars

PairsNext == RunStructuredPass

SpecPairs == PairsInit /\ [][PairsNext]_vars

\* The elements of seq at the positions where keep holds, in order.
RECURSIVE KeepWhere(_, _, _)
KeepWhere(seq, keep, n) ==
    IF n > Len(seq) THEN <<>>
    ELSE (IF keep[n] THEN <<seq[n]>> ELSE <<>>) \o KeepWhere(seq, keep, n + 1)

\* The pairs of the page as written that stand first in their dl, in document
\* order, followed by the first th/td of every table row.
FirstPairsOfPage == KeepWhere(p_page.pairs, p_page.breaks, 1) \o p_page.rows

\* Whether the inner loop assigns field key for a pair with this label.
SetsField(label, key) ==
    LET lm == label_map(p_site)
        hit == Matching(p_site, label)
    IN  /\ label # Empty
        /\ IF p_site = "angel" THEN \E m \in hit : lm[m].field = key
           ELSE First(hit) # 0 /\ lm[First(hit)].field = key

\* The positions in pairs of the pairs that set field key.
SettersOf(pairs, key) ==
    {n \in 1..Len(pairs) : SetsField(pairs[n][1], key)}

Last(S) == CHOOSE n \in S : \A m \in S : m <= n

\* C27: the structured pass of angel and madam reads the first dt/dd of each
\* dl and the first th/td of each table row only; a field set by several of
\* these pairs keeps the value of the last one processed, all definition lists
\* first and the table rows after them, also when that value is empty; a field
\* set by none stays empty.  (genre_detail is then replaced by the tag/badge
\* texts when there are any.)
C27_LastPairProcessedWins ==
    (p_pc = "structured" /\ p_site \in {"angel", "madam"}) =>
        \A pairs \in {FirstPairsOfPage} :
            \A key \in DetailKeySet :
                (key = "genre_detail" => NonEmpty(p_page.tags) = <<>>) =>
                    \A setters \in {SettersOf(pairs, key)} :
                        p_fields[key] = IF setters = {} THEN Empty
                                        ELSE pairs[Last(setters)][2]

\* Two definition lists give the age, "25sai" and then nothing, and the table
\* gives it again and then nothing: the age ends empty.
C27_Witness ==
    /\ p_pc = "structured"
    /\ p_site = "madam"
    /\ p_page.pairs = << <<KwAge[1], T25sai>>, <<KwAge[1], Empty>> >>
    /\ p_page.breaks = <<TRUE, TRUE>>
    /\ p_page.rows = << <<KwAge[1], T30sai>>, <<KwAge[1], Empty>> >>
    /\ p_fields["age"] = Empty

====
